---- MODULE Spec2Model ----
\* Model of the log-analysis pipeline of src/server.js: header location and
\* parse (normalizeLogCsv), channel resolution (pickColumn), numeric arrays,
\* high-load mask, pressure interpretation, min/max statistics and row sampling
\* of the POST /proxy/analyze handler.
\*
\* Text is a sequence of one-character strings (a line, a field name, a token).
\* A nullable value is Null (the empty tuple) or a one-element tuple / a record.
EXTENDS Integers, Sequences, FiniteSets, TLC

VARIABLES
    pc,               \* position of the handler: "start", "parsed", "columns", "analyzed",
                      \* or "done" after the parse-failure response
    lines,            \* the lines of the uploaded text (text.split("\n"))
    norm,             \* norm.info of the result of normalizeLogCsv, Null before it ran or when it threw
    thrown,           \* the error the parse step caught ({message}), or Null
    response,         \* body handed to res.json by the parse-failure branch, or Null
    fields,           \* norm.fields
    cols,             \* colTime .. colIgn: channel -> {name, score} or Null
    rows,             \* norm.rows: one record of cells per data line
    caps,             \* the caps handed to sampleRows for sample_all / sample_wot
    arrs,             \* rpmArr, pedalArr, throttleArr, boostRawArr
    wotMask,          \* high-load flag per row
    boostPsiArr,      \* converted psi series
    boostPsiGaugeArr, \* gauge psi series
    boostMeta,        \* { detected, absoluteLikely, unit }
    stats,            \* { full, wot } statistics, Null until computed
    sampleAll,        \* sample_all
    sampleWot         \* sample_wot

analysisVars == <<arrs, wotMask, boostPsiArr, boostPsiGaugeArr, boostMeta, stats,
                  sampleAll, sampleWot>>

vars == <<pc, lines, norm, thrown, response, fields, cols, rows, caps, analysisVars>>

Null == <<>>

----------------------------------------------------------------------------
\* Text helpers (String.prototype.trim / split / includes / startsWith)

Tab == "\t"

Whitespace == {" ", Tab}

RECURSIVE TrimStart(_)
TrimStart(s) ==
    IF s # <<>> /\ Head(s) \in Whitespace THEN TrimStart(Tail(s)) ELSE s

RECURSIVE TrimEnd(_)
TrimEnd(s) ==
    IF s # <<>> /\ s[Len(s)] \in Whitespace
    THEN TrimEnd(SubSeq(s, 1, Len(s) - 1))
    ELSE s

Trim(s) == TrimEnd(TrimStart(s))

\* s.split(d): the pieces between the occurrences of d; "" splits into [""]
RECURSIVE SplitFrom(_, _, _, _)
SplitFrom(s, d, i, cur) ==
    IF i > Len(s) THEN <<cur>>
    ELSE IF s[i] = d THEN <<cur>> \o SplitFrom(s, d, i + 1, <<>>)
    ELSE SplitFrom(s, d, i + 1, Append(cur, s[i]))

Split(s, d) == SplitFrom(s, d, 1, <<>>)

\* number of occurrences of character d in s
CountChar(s, d) == Cardinality({i \in 1..Len(s) : s[i] = d})

StartsWith(s, t) == Len(t) <= Len(s) /\ SubSeq(s, 1, Len(t)) = t

Includes(s, t) ==
    \E i \in 0..(Len(s) - Len(t)) : SubSeq(s, i + 1, i + Len(t)) = t

RECURSIVE Remove(_, _)
Remove(s, chars) ==
    IF s = <<>> THEN <<>>
    ELSE IF Head(s) \in chars THEN Remove(Tail(s), chars)
    ELSE <<Head(s)>> \o Remove(Tail(s), chars)

\* s.replace(",", "."): the first comma only
RECURSIVE ReplaceFirstComma(_)
ReplaceFirstComma(s) ==
    IF s = <<>> THEN <<>>
    ELSE IF Head(s) = "," THEN <<".">> \o Tail(s)
    ELSE <<Head(s)>> \o ReplaceFirstComma(Tail(s))

Digits == {"0", "1", "2", "3", "4", "5", "6", "7", "8", "9"}

\* Number.isFinite(Number(x)) for a non-empty x over digits, ".", letters and
\* delimiters: digits with at most one ".", at least one digit
IsFiniteNumberText(x) ==
    /\ \A i \in 1..Len(x) : x[i] \in Digits \cup {"."}
    /\ CountChar(x, ".") <= 1
    /\ \E i \in 1..Len(x) : x[i] \in Digits

----------------------------------------------------------------------------
\* Delimiter and header location

Candidates == <<",", ";", Tab, "|">>

\* counts sorted by descending count (stable): the first candidate with the
\* greatest count; "," when no candidate occurs
detectDelimiter(sampleLine) ==
    LET c == <<CountChar(sampleLine, Candidates[1]), CountChar(sampleLine, Candidates[2]),
               CountChar(sampleLine, Candidates[3]), CountChar(sampleLine, Candidates[4])>>
        first == CHOOSE i \in 1..Len(Candidates) :
                    /\ \A j \in 1..Len(Candidates) : c[j] <= c[i]
                    /\ \A j \in 1..(i - 1) : c[j] < c[i]
    IN  IF c[first] > 0 THEN Candidates[first] ELSE ","

Max2(a, b) == IF a >= b THEN a ELSE b

\* Math.floor(n * 0.4)
FloorFourTenths(n) == (n * 4) \div 10

MinHeaderParts == 3

MinNonNumeric == 2

looksLikeHeader(line, delim) ==
    LET split == Split(line, delim)
        parts == [i \in 1..Len(split) |-> Trim(split[i])]
        x(i) == Trim(Remove(parts[i], {"\"", "'"}))
        nonNumeric == Cardinality({i \in 1..Len(parts) :
            x(i) # <<>> /\ ~IsFiniteNumberText(ReplaceFirstComma(x(i)))})
    IN  IF Len(parts) < MinHeaderParts THEN FALSE
        ELSE nonNumeric >= Max2(MinNonNumeric, FloorFourTenths(Len(parts)))

Min2(a, b) == IF a <= b THEN a ELSE b

MaxScanLines == 50

\* a scan that is not bounded
maxScanAll(ls) == Len(ls)

maxScan(ls) == Min2(Len(ls), MaxScanLines)

\* a comparison that lets a later line of equal score win
BetterHeaderOrEqual(score, bestScore) == score >= bestScore

\* score > bestScore
BetterHeader(score, bestScore) == score > bestScore

\* the loop of findHeaderLineIndex from index i (0-based) on
RECURSIVE ScanFrom(_, _, _, _)
ScanFrom(ls, i, bestIdx, bestScore) ==
    IF i >= maxScan(ls) THEN bestIdx
    ELSE LET line == Trim(ls[i + 1])
             delim == detectDelimiter(line)
             score == Len(Split(line, delim))
         IN  IF line = <<>> THEN ScanFrom(ls, i + 1, bestIdx, bestScore)
             ELSE IF looksLikeHeader(line, delim) /\ BetterHeader(score, bestScore)
                  THEN ScanFrom(ls, i + 1, i, score)
                  ELSE ScanFrom(ls, i + 1, bestIdx, bestScore)

findHeaderLineIndex(ls) == ScanFrom(ls, 0, -1, -1)

----------------------------------------------------------------------------
\* Tabular parse (Papa.parse with header: true, skipEmptyLines: true)

\* lines.slice(headerIdx): the header line and everything after it
DataRegion(ls, headerIdx) == SubSeq(ls, headerIdx + 1, Len(ls))

\* the lines of the region that skipEmptyLines keeps: those that are not the
\* empty string (a line of whitespace is kept)
RECURSIVE NonEmptyLines(_)
NonEmptyLines(ls) ==
    IF ls = <<>> THEN <<>>
    ELSE IF Head(ls) = <<>> THEN NonEmptyLines(Tail(ls))
    ELSE <<Head(ls)>> \o NonEmptyLines(Tail(ls))

\* the first kept line gives the fields, the others the data rows, each split by
\* d; a row whose width differs from the header's is reported in errors.
\* Quoting and the renaming of repeated header names are not modelled.
PapaParse(region, d) ==
    LET recs == NonEmptyLines(region)
        hdr == IF recs = <<>> THEN <<>> ELSE Split(recs[1], d)
        data == [i \in 1..(Len(recs) - 1) |-> Split(recs[i + 1], d)]
    IN  [data |-> data,
         fields |-> hdr,
         errors |-> {i \in 1..Len(data) : Len(data[i]) # Len(hdr)}]

HeaderNotFound == "Header not found"

NoUsableRows == "No usable rows"

\* normalizeLogCsv from the located header index on; guess is the delimiter the
\* parser infers when none is forced. A throw is [ok |-> FALSE, error |-> message].
ParseFrom(ls, headerIdx, guess) ==
    LET headerLine == ls[headerIdx + 1]
        delimiter == detectDelimiter(headerLine)
        region == DataRegion(ls, headerIdx)
        parsed == PapaParse(region, delimiter)
        parsed2 == PapaParse(region, guess)
    IN  IF headerIdx < 0 THEN [ok |-> FALSE, error |-> HeaderNotFound]
        ELSE IF parsed.errors # {}
        THEN IF Len(parsed2.data) = 0 THEN [ok |-> FALSE, error |-> NoUsableRows]
             ELSE [ok |-> TRUE, rows |-> parsed2.data, fields |-> parsed2.fields,
                   info |-> [headerIdx |-> headerIdx, detectedDelimiter |-> "auto",
                             rows |-> Len(parsed2.data)]]
        ELSE IF Len(parsed.data) = 0 THEN [ok |-> FALSE, error |-> NoUsableRows]
        ELSE [ok |-> TRUE, rows |-> parsed.data, fields |-> parsed.fields,
              info |-> [headerIdx |-> headerIdx, detectedDelimiter |-> delimiter,
                        rows |-> Len(parsed.data)]]

normalizeLogCsv(ls, guess) == ParseFrom(ls, findHeaderLineIndex(ls), guess)

\* delimiters the parser may infer on the retry
GuessDelimiters == {",", ";"}

AdvisoryEn == "Could not parse this file reliably. Please export as CSV with a single header row and consistent delimiter."

AdvisoryDe == "Konnte die Datei nicht zuverlaessig einlesen. Bitte als CSV mit einer einzigen Header-Zeile und konsistentem Trennzeichen exportieren."

\* the body a catch branch that echoes the error would send
ParseFailureResponseEcho(e) == [text |-> <<"Analyse fehlgeschlagen: ", e.message>>]

\* the body the catch branch of the parse step sends; e is the caught error
ParseFailureResponse(e) == [text |-> <<AdvisoryEn, AdvisoryDe>>]

\* step 1 of the handler: normalizeLogCsv, and on a throw the response and return
ParseStep ==
    /\ pc = "start"
    /\ LET headerIdx == findHeaderLineIndex(lines)
       IN  \E g \in GuessDelimiters :
             LET n == ParseFrom(lines, headerIdx, g)
             IN  IF n.ok
                 THEN /\ norm' = n.info
                      /\ rows' = n.rows
                      /\ fields' = n.fields
                      /\ pc' = "parsed"
                      /\ UNCHANGED <<thrown, response>>
                 ELSE /\ thrown' = [message |-> n.error]
                      /\ response' = ParseFailureResponse([message |-> n.error])
                      /\ pc' = "done"
                      /\ UNCHANGED <<norm, rows, fields>>
    /\ UNCHANGED <<lines, cols, caps, analysisVars>>

----------------------------------------------------------------------------
\* Channel resolution

\* toLowerCase over the letters A..Z
LowerOf ==
    "A" :> "a" @@
    "B" :> "b" @@
    "C" :> "c" @@
    "D" :> "d" @@
    "E" :> "e" @@
    "F" :> "f" @@
    "G" :> "g" @@
    "H" :> "h" @@
    "I" :> "i" @@
    "J" :> "j" @@
    "K" :> "k" @@
    "L" :> "l" @@
    "M" :> "m" @@
    "N" :> "n" @@
    "O" :> "o" @@
    "P" :> "p" @@
    "Q" :> "q" @@
    "R" :> "r" @@
    "S" :> "s" @@
    "T" :> "t" @@
    "U" :> "u" @@
    "V" :> "v" @@
    "W" :> "w" @@
    "X" :> "x" @@
    "Y" :> "y" @@
    "Z" :> "z"

ToLower(c) == IF c \in DOMAIN LowerOf THEN LowerOf[c] ELSE c

\* the characters /[\s\-_()/[\].:%]/ removes
StrippedChars == {" ", Tab, "-", "_", "(", ")", "/", "[", "]", ".", ":", "%"}

normKey(s) == Remove([i \in 1..Len(s) |-> ToLower(s[i])], StrippedChars)

\* the score of one (field key, candidate key) pair
PairScore(fk, ck) ==
    IF fk = ck THEN 100
    ELSE IF Includes(fk, ck) \/ Includes(ck, fk) THEN 60
    ELSE IF StartsWith(fk, ck) \/ StartsWith(ck, fk) THEN 50
    ELSE 0

\* best?.score || 0
BestScoreOrZero(best) == IF best = Null THEN 0 ELSE best.score

\* a comparison that lets a later pair of equal score replace the best
ImprovesOrEqual(score, best) == score >= BestScoreOrZero(best)

\* whether the pair's score replaces the best so far
Improves(score, best) == score > BestScoreOrZero(best)

\* the candidates' keys, in order
RECURSIVE NormKeys(_)
NormKeys(cs) == IF cs = <<>> THEN <<>> ELSE <<normKey(Head(cs))>> \o NormKeys(Tail(cs))

\* the inner loop of pickColumn for field f with key fk, at candidate j (1-based);
\* cks are the candidates' keys
RECURSIVE CandidateLoop(_, _, _, _, _)
CandidateLoop(f, fk, cks, j, best) ==
    IF j > Len(cks) THEN best
    ELSE LET ck == cks[j]
             score == PairScore(fk, ck)
         IN  IF ck = <<>> THEN CandidateLoop(f, fk, cks, j + 1, best)
             ELSE IF Improves(score, best)
                  THEN CandidateLoop(f, fk, cks, j + 1, [name |-> f, score |-> score])
                  ELSE CandidateLoop(f, fk, cks, j + 1, best)

\* the outer loop of pickColumn, at field i (1-based)
RECURSIVE PickLoop(_, _, _, _)
PickLoop(fs, cks, i, best) ==
    IF i > Len(fs) THEN best
    ELSE PickLoop(fs, cks, i + 1, CandidateLoop(fs[i], normKey(fs[i]), cks, 1, best))

AcceptScore == 40

pickColumn(fs, cs) ==
    LET best == PickLoop(fs, NormKeys(cs), 1, Null)
    IN  IF best # Null /\ best.score >= AcceptScore THEN best ELSE Null

TimeCandidates ==
    <<<<"t", "i", "m", "e">>,
      <<"t", "i", "m", "e", "s", "t", "a", "m", "p">>,
      <<"t">>,
      <<"z", "e", "i", "t">>,
      <<"s", "e", "c">>,
      <<"s">>>>

RpmCandidates ==
    <<<<"r", "p", "m">>,
      <<"e", "n", "g", "i", "n", "e", " ", "r", "p", "m">>,
      <<"m", "o", "t", "o", "r", "d", "r", "e", "h", "z", "a", "h", "l">>,
      <<"n">>,
      <<"e", "n", "g", "i", "n", "e", "r", "p", "m">>>>

PedalCandidates ==
    <<<<"p", "e", "d", "a", "l">>,
      <<"a", "c", "c", "e", "l", "e", "r", "a", "t", "o", "r">>,
      <<"a", "c", "c", "e", "l">>,
      <<"a", "p">>,
      <<"g", "a", "s", "p", "e", "d", "a", "l">>,
      <<"p", "e", "d", "a", "l", "p", "o", "s">>>>

ThrottleCandidates ==
    <<<<"t", "h", "r", "o", "t", "t", "l", "e">>,
      <<"t", "h", "r", "o", "t", "t", "l", "e", "p", "o", "s">>,
      <<"d", "r", "o", "s", "s", "e", "l">>,
      <<"t", "p">>,
      <<"t", "h", "r", "o", "t", "t", "l", "e", " ", "a", "n", "g", "l", "e">>>>

BoostCandidates ==
    <<<<"b", "o", "o", "s", "t">>,
      <<"m", "a", "p">>,
      <<"m", "a", "n", "i", "f", "o", "l", "d">>,
      <<"c", "h", "a", "r", "g", "e">>,
      <<"l", "d">>,
      <<"s", "a", "u", "g", "r", "o", "h", "r">>,
      <<"p", "r", "e", "s", "s", "u", "r", "e">>,
      <<"b", "o", "o", "s", "t", "p", "s", "i">>,
      <<"m", "a", "p", "k", "p", "a">>>>

IatCandidates ==
    <<<<"i", "a", "t">>,
      <<"i", "n", "t", "a", "k", "e">>,
      <<"a", "n", "s", "a", "u", "g", "l", "u", "f", "t">>,
      <<"i", "n", "t", "a", "k", "e", " ", "a", "i", "r">>,
      <<"c", "h", "a", "r", "g", "e", " ", "a", "i", "r", " ", "t", "e", "m", "p">>>>

LambdaCandidates ==
    <<<<"l", "a", "m", "b", "d", "a">>,
      <<"a", "f", "r">>,
      <<"w", "i", "d", "e", "b", "a", "n", "d">>,
      <<"o", "2">>,
      <<"e", "q", "u", "i", "v", "a", "l", "e", "n", "c", "e">>>>

IgnCandidates ==
    <<<<"i", "g", "n">>,
      <<"t", "i", "m", "i", "n", "g">>,
      <<"s", "p", "a", "r", "k">>,
      <<"z", "w">>,
      <<"z", "u-umlaut", "n", "d">>,
      <<"i", "g", "n", "i", "t", "i", "o", "n">>,
      <<"s", "p", "a", "r", "k", " ", "a", "d", "v", "a", "n", "c", "e">>>>

Channels == {"time", "rpm", "pedal", "throttle", "boost", "iat", "lambda", "ignition"}

CandidatesOf(ch) ==
    CASE ch = "time" -> TimeCandidates
      [] ch = "rpm" -> RpmCandidates
      [] ch = "pedal" -> PedalCandidates
      [] ch = "throttle" -> ThrottleCandidates
      [] ch = "boost" -> BoostCandidates
      [] ch = "iat" -> IatCandidates
      [] ch = "lambda" -> LambdaCandidates
      [] ch = "ignition" -> IgnCandidates

\* step 2 of the handler: colTime .. colIgn
DetectColumns ==
    /\ pc = "parsed"
    /\ cols' = [ch \in Channels |-> pickColumn(fields, CandidatesOf(ch))]
    /\ pc' = "columns"
    /\ UNCHANGED <<lines, norm, thrown, response, fields, rows, caps, analysisVars>>

----------------------------------------------------------------------------
\* Numeric coercion, sampling, min/max
\*
\* A cell is Null (no such cell), [text |-> t] (text that is no number, "" is
\* the empty cell) or [num |-> n] (text that reads as the number n). A number
\* is the one-element tuple <<n>>; null is Null. Pedal and throttle values are
\* counted in tenths, boost values in whole units, converted psi values in
\* units of 10^-7 psi.

IsFinite(v) == v # Null

toNumberLoose(v) ==
    IF v = Null THEN Null
    ELSE IF "num" \in DOMAIN v THEN <<v.num>>
    ELSE Null

\* a step rounded down
FloorDiv(n, m) == n \div m

\* Math.ceil(n / m)
CeilDiv(n, m) == (n + m - 1) \div m

\* the rows at indices i, i + step, ... (0-based) below rows.length
RECURSIVE EveryStep(_, _, _)
EveryStep(rs, i, step) ==
    IF i >= Len(rs) THEN <<>>
    ELSE <<rs[i + 1]>> \o EveryStep(rs, i + step, step)

sampleRows(rs, max) ==
    IF Len(rs) <= max THEN rs
    ELSE EveryStep(rs, 0, CeilDiv(Len(rs), max))

\* an update that keeps the greater value
UpdateMinGreater(v, min) == IF min = <<>> \/ v[1] > min[1] THEN v ELSE min

\* if (v < min) min = v; the empty tuple stands for Infinity
UpdateMin(v, min) == IF min = <<>> \/ v[1] < min[1] THEN v ELSE min

\* if (v > max) max = v; the empty tuple stands for -Infinity
UpdateMax(v, max) == IF max = <<>> \/ v[1] > max[1] THEN v ELSE max

\* the loop of minMax at element i (1-based)
RECURSIVE MinMaxLoop(_, _, _)
MinMaxLoop(arr, i, acc) ==
    IF i > Len(arr) THEN acc
    ELSE IF ~IsFinite(arr[i]) THEN MinMaxLoop(arr, i + 1, acc)
    ELSE MinMaxLoop(arr, i + 1, [min |-> UpdateMin(arr[i], acc.min),
                                 max |-> UpdateMax(arr[i], acc.max),
                                 count |-> acc.count + 1])

minMax(arr) ==
    LET acc == MinMaxLoop(arr, 1, [min |-> <<>>, max |-> <<>>, count |-> 0])
    IN  IF acc.count = 0 THEN Null
        ELSE [min |-> acc.min[1], max |-> acc.max[1], count |-> acc.count]

\* arr[i] for a 0-based i, undefined (Null) beyond the end
At(arr, i) == IF i < Len(arr) THEN arr[i + 1] ELSE Null

RECURSIVE FilterFrom(_, _, _)
FilterFrom(arr, mask, i) ==
    IF i >= Len(arr) THEN <<>>
    ELSE IF mask[i + 1] THEN <<arr[i + 1]>> \o FilterFrom(arr, mask, i + 1)
    ELSE FilterFrom(arr, mask, i + 1)

filterByMask(arr, mask) == FilterFrom(arr, mask, 0)

\* a filter that keeps every entry
DropNullKeep(arr) == arr

\* arr.filter((v) => v !== null)
RECURSIVE DropNull(_)
DropNull(arr) ==
    IF arr = <<>> THEN <<>>
    ELSE IF Head(arr) = Null THEN DropNull(Tail(arr))
    ELSE <<Head(arr)>> \o DropNull(Tail(arr))

----------------------------------------------------------------------------
\* Pressure interpretation

\* null in the unit slot
NoUnit == "null"

BarMax == 5

KpaMin == 50

KpaMax == 400

PsiMax == 120

detectPressureUnit(series) ==
    LET st == minMax(series)
    IN  IF st = Null THEN [unit |-> NoUnit, kind |-> "null"]
        ELSE IF st.max <= BarMax /\ st.min >= 0 THEN [unit |-> "bar", kind |-> "pressure"]
        ELSE IF st.max > KpaMin /\ st.max <= KpaMax THEN [unit |-> "kPa", kind |-> "pressure"]
        ELSE IF st.max > BarMax /\ st.max <= PsiMax THEN [unit |-> "psi", kind |-> "pressure"]
        ELSE [unit |-> NoUnit, kind |-> "pressure"]

\* 1 psi, 0.1450377 psi and 14.50377 psi in units of 10^-7 psi
PsiPerPsi == 10000000

PsiPerKpa == 1450377

PsiPerBar == 145037700

\* a conversion that returns a value of unknown unit as it is
pressureToPsiFallThrough(v, unit) ==
    IF ~IsFinite(v) THEN Null
    ELSE IF unit = "psi" THEN <<v[1] * PsiPerPsi>>
    ELSE IF unit = "kPa" THEN <<v[1] * PsiPerKpa>>
    ELSE IF unit = "bar" THEN <<v[1] * PsiPerBar>>
    ELSE v

pressureToPsi(v, unit) ==
    IF ~IsFinite(v) THEN Null
    ELSE IF unit = "psi" THEN <<v[1] * PsiPerPsi>>
    ELSE IF unit = "kPa" THEN <<v[1] * PsiPerKpa>>
    ELSE IF unit = "bar" THEN <<v[1] * PsiPerBar>>
    ELSE Null

\* 10 psi and 18 psi in units of 10^-7 psi
AbsLow == 100000000

AbsHigh == 180000000

likelyAbsolutePressurePsi(psiStats) ==
    IF psiStats = Null THEN FALSE
    ELSE psiStats.min > AbsLow /\ psiStats.min < AbsHigh

\* 14.7 psi in units of 10^-7 psi
AtmPsi == 147000000

\* v === null ? null : v - 14.7
MinusAtm(v) == IF v = Null THEN Null ELSE <<v[1] - AtmPsi>>

----------------------------------------------------------------------------
\* High-load mask

\* 1.2, 0.9 and 90 in tenths
ScaleCutoff == 12

FractionWot == 9

PercentWot == 900

\* a test that is strict at the thresholds
HighLoadStrict(v) ==
    IF IsFinite(v)
    THEN (IF v[1] <= ScaleCutoff THEN v[1] > FractionWot ELSE v[1] > PercentWot)
    ELSE FALSE

\* Number.isFinite(p) ? (p <= 1.2 ? p >= 0.9 : p >= 90) : false
HighLoad(v) ==
    IF IsFinite(v)
    THEN (IF v[1] <= ScaleCutoff THEN v[1] >= FractionWot ELSE v[1] >= PercentWot)
    ELSE FALSE

----------------------------------------------------------------------------
\* Steps 3 to 7 of the handler. A row is a record of cells, one per channel
\* (the cell under the field the channel resolved to).

NumericChannels == {"rpm", "pedal", "throttle", "boost", "iat", "lambda", "ignition"}

\* colX ? rows.map((r) => toNumberLoose(r[colX.name])) : []
NumericArray(rs, cs, ch) ==
    IF cs[ch] # Null THEN [i \in 1..Len(rs) |-> toNumberLoose(rs[i][ch])] ELSE <<>>

WotMaskOf(rs, pedalArr, throttleArr) ==
    [i \in 1..Len(rs) |-> HighLoad(At(pedalArr, i - 1)) \/ HighLoad(At(throttleArr, i - 1))]

\* boostRawArr.map((v) => pressureToPsi(v, unit))
PsiSeries(boostRawArr, unit) ==
    [i \in 1..Len(boostRawArr) |-> pressureToPsi(boostRawArr[i], unit)]

\* a gauge value that is never shifted
WotGaugeValueRaw(psi, absoluteLikely) == psi

\* psi === null ? null : (absoluteLikely ? psi - 14.7 : psi)
WotGaugeValue(psi, absoluteLikely) ==
    IF psi = Null THEN Null
    ELSE IF absoluteLikely THEN MinusAtm(psi) ELSE psi

\* the aligned gauge series rebuilt for the high-load statistic
WotGaugeSeries(boostRawArr, meta) ==
    [i \in 1..Len(boostRawArr) |->
        WotGaugeValue(pressureToPsi(boostRawArr[i], meta.unit), meta.absoluteLikely)]

\* the caps of sample_all and sample_wot
SampleAllCap == 500

SampleWotCap == 300

RECURSIVE OnlyWot(_)
OnlyWot(crs) ==
    IF crs = <<>> THEN <<>>
    ELSE IF Head(crs).wot = 1 THEN <<Head(crs)>> \o OnlyWot(Tail(crs))
    ELSE OnlyWot(Tail(crs))

\* rows.map((r, i) => ({ __wot: wotMask[i] ? 1 : 0, ...kept cells })); src is the
\* index of the source row, kept to state where a sampled row came from
CompactRows(rs, mask) ==
    [i \in 1..Len(rs) |-> [wot |-> IF mask[i] THEN 1 ELSE 0, src |-> i - 1, cells |-> rs[i]]]

AnalyzeStats ==
    /\ pc = "columns"
    /\ LET a == [ch \in NumericChannels |-> NumericArray(rows, cols, ch)]
           mask == WotMaskOf(rows, a["pedal"], a["throttle"])
           hasBoost == cols["boost"] # Null
           unitGuess == detectPressureUnit(a["boost"])
           psiArr == DropNull(PsiSeries(a["boost"], unitGuess.unit))
           psiStats == minMax(psiArr)
           absLikely == likelyAbsolutePressurePsi(psiStats)
           gaugeArr ==
               IF absLikely
               THEN DropNull([i \in 1..Len(a["boost"]) |->
                                 MinusAtm(pressureToPsi(a["boost"][i], unitGuess.unit))])
               ELSE DropNull(PsiSeries(a["boost"], unitGuess.unit))
           meta ==
               IF hasBoost
               THEN [detected |-> cols["boost"].name, absoluteLikely |-> absLikely,
                     unit |-> unitGuess.unit]
               ELSE [detected |-> Null, absoluteLikely |-> Null, unit |-> NoUnit]
           gauge == IF hasBoost THEN gaugeArr ELSE <<>>
           compactRows == CompactRows(rows, mask)
       IN  /\ arrs' = a
           /\ wotMask' = mask
           /\ boostPsiArr' = IF hasBoost THEN psiArr ELSE <<>>
           /\ boostPsiGaugeArr' = gauge
           /\ boostMeta' = meta
           /\ stats' =
                [full |-> [rpm |-> minMax(a["rpm"]),
                           iat |-> minMax(a["iat"]),
                           lambda |-> minMax(a["lambda"]),
                           ignition |-> minMax(a["ignition"]),
                           boostPsiGauge |-> minMax(gauge)],
                 wot |-> [rpm |-> minMax(filterByMask(a["rpm"], mask)),
                          iat |-> minMax(filterByMask(a["iat"], mask)),
                          lambda |-> minMax(filterByMask(a["lambda"], mask)),
                          ignition |-> minMax(filterByMask(a["ignition"], mask)),
                          boostPsiGauge |->
                              minMax(filterByMask(
                                  IF hasBoost THEN WotGaugeSeries(a["boost"], meta) ELSE <<>>,
                                  mask))]]
           /\ sampleAll' = sampleRows(compactRows, caps.all)
           /\ sampleWot' = sampleRows(OnlyWot(compactRows), caps.wot)
    /\ pc' = "analyzed"
    /\ UNCHANGED <<lines, norm, thrown, response, fields, cols, rows, caps>>

\* rows of cells for the channels given, the other cells absent
Row(rpm, pedal, throttle, boost) ==
    [ch \in NumericChannels |->
        CASE ch = "rpm" -> rpm
          [] ch = "pedal" -> pedal
          [] ch = "throttle" -> throttle
          [] ch = "boost" -> boost
          [] OTHER -> Null]

\* sequences over S of length at most n
RECURSIVE SeqsUpTo(_, _)
SeqsUpTo(S, n) ==
    IF n = 0 THEN {<<>>}
    ELSE SeqsUpTo(S, n - 1) \cup
         {Append(q, x) : q \in {r \in SeqsUpTo(S, n - 1) : Len(r) = n - 1}, x \in S}

\* the channels in R resolved to a field named after the channel, boost to bn
ColsOf(R, bn) ==
    [ch \in Channels |->
        IF ch \notin R THEN Null
        ELSE IF ch = "boost" THEN [name |-> bn, score |-> 60]
        ELSE [name |-> <<ch>>, score |-> 100]]

\* the handler after the column detection, before step 3
Detected ==
    /\ pc = "columns"
    /\ lines = Null
    /\ fields = Null
    /\ norm = [headerIdx |-> 0, detectedDelimiter |-> ",", rows |-> Len(rows)]
    /\ thrown = Null
    /\ response = Null
    /\ arrs = Null
    /\ wotMask = Null
    /\ boostPsiArr = Null
    /\ boostPsiGaugeArr = Null
    /\ boostMeta = Null
    /\ stats = Null
    /\ sampleAll = Null
    /\ sampleWot = Null

ProgramCaps == [all |-> SampleAllCap, wot |-> SampleWotCap]

----------------------------------------------------------------------------
\* Uploaded files for the header search: a run of filler lines, a token line,
\* a second run of filler lines, a second token line.

MaxAlpha == 3

\* numbers of number tokens: none, one, and enough to need three name tokens
NumCounts == {0, 1, 6}

\* n copies of x
Rep(x, n) == [i \in 1..n |-> x]

RECURSIVE Join(_, _)
Join(toks, d) ==
    IF toks = <<>> THEN <<>>
    ELSE IF Len(toks) = 1 THEN toks[1]
    ELSE toks[1] \o <<d>> \o Join(Tail(toks), d)

\* a line of nAlpha name tokens followed by nNum number tokens, joined by d
TokenLine(nAlpha, nNum, d) == Join(Rep(<<"a">>, nAlpha) \o Rep(<<"1">>, nNum), d)

TokenLines ==
    {TokenLine(a, n, d) : a \in 0..MaxAlpha, n \in NumCounts, d \in {",", ";"}}

\* filler: blank lines, or one-token lines that are no header
Fillers == {<<>>, <<"1">>}

FirstRuns == {0, 49, 50}

SecondRuns == {0, 49}

\* trailing data: nothing, or one line of three numbers
Tails == {<<>>, <<TokenLine(0, 3, ",")>>}

FileOf(fill, n1, lineA, n2, lineB, tail) ==
    Rep(fill, n1) \o <<lineA>> \o Rep(fill, n2) \o <<lineB>> \o tail

HeaderFiles ==
    {FileOf(fill, n1, lineA, n2, lineB, tail) :
        fill \in Fillers, n1 \in FirstRuns, lineA \in TokenLines,
        n2 \in SecondRuns, lineB \in TokenLines, tail \in Tails}

\* the request state before the handler ran a step
Fresh ==
    /\ norm = Null
    /\ thrown = Null
    /\ response = Null
    /\ cols = Null
    /\ arrs = Null
    /\ wotMask = Null
    /\ boostPsiArr = Null
    /\ boostPsiGaugeArr = Null
    /\ boostMeta = Null
    /\ stats = Null
    /\ sampleAll = Null
    /\ sampleWot = Null

InitHeader ==
    /\ pc = "start"
    /\ lines \in HeaderFiles
    /\ fields = Null
    /\ rows = Null
    /\ caps = Null
    /\ Fresh

NextHeader == ParseStep \/ DetectColumns

SpecHeader == InitHeader /\ [][NextHeader]_vars

----------------------------------------------------------------------------
\* Properties of the header search and the parse step (SpecHeader)

\* the line at 0-based index i, trimmed
TrimmedLine(ls, i) == Trim(ls[i + 1])

\* number of tokens of the line at index i under the delimiter detected for it
TokenCount(ls, i) ==
    Len(Split(TrimmedLine(ls, i), detectDelimiter(TrimmedLine(ls, i))))

\* number of tokens of the line at index i that are non-empty and no number
NonNumericCount(ls, i) ==
    LET toks == Split(TrimmedLine(ls, i), detectDelimiter(TrimmedLine(ls, i)))
    IN  Cardinality({k \in 1..Len(toks) :
            /\ Trim(toks[k]) # <<>>
            /\ ~IsFiniteNumberText(Trim(toks[k]))})

\* header-like as the specification words it
Qualifies(ls, i) ==
    /\ TrimmedLine(ls, i) # <<>>
    /\ TokenCount(ls, i) >= 3
    /\ NonNumericCount(ls, i) >= 2
    /\ 10 * NonNumericCount(ls, i) >= 4 * TokenCount(ls, i) - 9

\* number of non-empty lines before index i
NonEmptyBefore(ls, i) ==
    Cardinality({j \in 0..(i - 1) : TrimmedLine(ls, j) # <<>>})

\* indices of the first 50 non-empty lines
FirstNonEmpty(ls) ==
    {i \in 0..(Len(ls) - 1) : TrimmedLine(ls, i) # <<>> /\ NonEmptyBefore(ls, i) < 50}

\* indices of the first 50 lines
FirstLines(ls) == {i \in 0..(Len(ls) - 1) : i < 50}

ParseStepDone == pc # "start"

Parsed == pc \in {"parsed", "columns"}

HeaderNotFoundThrown == pc = "done" /\ thrown = [message |-> HeaderNotFound]

\* C4 as stated: the search window is the first 50 non-empty lines: a qualifying
\* line among them is found, and the selected line is one of them.
C4_WindowIsFirstFiftyNonEmpty ==
    ParseStepDone =>
        /\ (\E i \in FirstNonEmpty(lines) : Qualifies(lines, i)) => ~HeaderNotFoundThrown
        /\ Parsed => norm.headerIdx \in FirstNonEmpty(lines)

\* C4 amended: the search window is the first 50 lines by line index, blank
\* lines included: the header is found exactly when a qualifying line has an
\* index below 50, and the selected line has an index below 50.
C4_WindowIsFirstFiftyLines ==
    ParseStepDone =>
        /\ (\E i \in FirstLines(lines) : Qualifies(lines, i)) <=> ~HeaderNotFoundThrown
        /\ Parsed => norm.headerIdx \in FirstLines(lines) /\ Qualifies(lines, norm.headerIdx)

\* a qualifying line sits at index 50 behind blank lines only, and the search failed
C4_Witness ==
    /\ HeaderNotFoundThrown
    /\ Len(lines) > 50
    /\ Qualifies(lines, 50)
    /\ NonEmptyBefore(lines, 50) = 0

\* C5: the selected header is a qualifying line of the scan window with the
\* most tokens, the earliest of those; when no line of the window qualifies the
\* parse step fails with header-not-found and nothing is parsed.
C5_MostTokensEarliest ==
    ParseStepDone =>
        LET Q == {i \in FirstLines(lines) : Qualifies(lines, i)}
        IN  IF Q = {}
            THEN HeaderNotFoundThrown /\ norm = Null /\ rows = Null /\ fields = Null
            ELSE /\ ~HeaderNotFoundThrown
                 /\ Parsed =>
                      /\ norm.headerIdx \in Q
                      /\ \A i \in Q :
                           \/ TokenCount(lines, i) < TokenCount(lines, norm.headerIdx)
                           \/ /\ TokenCount(lines, i) = TokenCount(lines, norm.headerIdx)
                              /\ norm.headerIdx <= i

\* two qualifying lines with equally many tokens, the earlier one selected
C5_Witness ==
    /\ Parsed
    /\ \E i \in FirstLines(lines) :
         /\ i > norm.headerIdx
         /\ Qualifies(lines, i)
         /\ TokenCount(lines, i) = TokenCount(lines, norm.headerIdx)

\* C9: after either failure of the parse step the response is the fixed
\* two-language advisory, without the text of the error, and no later step ran.
C9_FailureIsAdvisory ==
    /\ pc = "done" =>
         /\ thrown \in {[message |-> HeaderNotFound], [message |-> NoUsableRows]}
         /\ response = [text |-> <<AdvisoryEn, AdvisoryDe>>]
         /\ \A k \in 1..Len(response.text) : response.text[k] # thrown.message
         /\ norm = Null /\ cols = Null /\ stats = Null
         /\ sampleAll = Null /\ sampleWot = Null
    /\ Parsed => thrown = Null /\ response = Null

\* the parse step failed with no-usable-rows and the advisory was sent
C9_Witness ==
    /\ pc = "done"
    /\ thrown = [message |-> NoUsableRows]
    /\ response # Null

----------------------------------------------------------------------------
\* Field sets for the channel resolution

MaxFields == 2

FieldPool ==
    {<<"T", "i", "m", "e">>,
     <<"R", "P", "M">>,
     <<"r", "p", "m">>,
     <<"E", "n", "g", "i", "n", "e", " ", "R", "P", "M", " ", "[", "1", "/", "m", "i", "n", "]">>,
     <<"P", "e", "d", "a", "l">>,
     <<"T", "h", "r", "o", "t", "t", "l", "e">>,
     <<"B", "o", "o", "s", "t", " ", "(", "p", "s", "i", ")">>,
     <<"M", "A", "P">>,
     <<"%">>,
     <<"x", "y", "z">>}

\* sequences of distinct field names of length n
RECURSIVE DistinctSeqs(_, _)
DistinctSeqs(pool, n) ==
    IF n = 0 THEN {<<>>}
    ELSE {Append(q, f) : q \in DistinctSeqs(pool, n - 1), f \in pool} \ 
         {q \in {Append(q, f) : q \in DistinctSeqs(pool, n - 1), f \in pool} :
             \E i \in 1..(n - 1) : q[i] = q[n]}

FieldSets == UNION {DistinctSeqs(FieldPool, n) : n \in 0..MaxFields}

\* the handler after a parse that returned the fields fs and one row of empty cells
InitColumns ==
    /\ pc = "parsed"
    /\ lines = Null
    /\ fields \in FieldSets
    /\ rows = <<Rep(<<>>, Len(fields))>>
    /\ caps = Null
    /\ Fresh

NextColumns == DetectColumns

SpecColumns == InitColumns /\ [][NextColumns]_vars

----------------------------------------------------------------------------
\* Properties of the channel resolution (SpecColumns)

\* the score of a pair of keys as the specification words it
StatedPairScore(fk, ck) ==
    CASE fk = ck -> 100
      [] fk # ck /\ (Includes(fk, ck) \/ Includes(ck, fk)) -> 60
      [] OTHER -> 0

\* the best stated score of field f over the synonyms of channel ch
StatedFieldScore(f, ch) ==
    LET cs == CandidatesOf(ch)
        scores == {StatedPairScore(normKey(f), normKey(cs[j])) : j \in 1..Len(cs)}
    IN  CHOOSE x \in scores : \A y \in scores : y <= x

\* C6: per channel, the picked field has the highest score over all (field,
\* synonym) pairs, 100 for equal keys, 60 for containment either way (a prefix
\* is a containment, so no pair scores 50), 0 otherwise; the earliest field wins
\* among equal best scores; nothing is picked when the best score is below 40.
C6_PickIsBestEarliest ==
    pc = "columns" =>
        \A ch \in Channels :
            LET sc(i) == StatedFieldScore(fields[i], ch)
                top == {i \in 1..Len(fields) :
                          /\ sc(i) >= 40
                          /\ \A k \in 1..Len(fields) : sc(k) <= sc(i)
                          /\ \A k \in 1..(i - 1) : sc(k) < sc(i)}
            IN  IF top = {} THEN cols[ch] = Null
                ELSE \E i \in top : cols[ch] = [name |-> fields[i], score |-> sc(i)]

\* two fields tie at the best score of the rpm channel and the first one is picked
C6_Witness ==
    /\ pc = "columns"
    /\ Len(fields) = 2
    /\ StatedFieldScore(fields[1], "rpm") = 100
    /\ StatedFieldScore(fields[2], "rpm") = 100
    /\ cols["rpm"] = [name |-> fields[1], score |-> 100]
    /\ cols["boost"] = Null

----------------------------------------------------------------------------
\* Inputs of steps 3 to 7

MaxWotRows == 2

\* "", 0.8, 0.9, 1.2, 1.3, 89.9 and 90 (tenths)
WotCells ==
    {[text |-> ""], [num |-> 8], [num |-> 9], [num |-> 12], [num |-> 13],
     [num |-> 899], [num |-> 900]}

CellsFor(ch, R, cells) == IF ch \in R THEN cells ELSE {Null}

NonEmptySeqs(S, n) == {q \in SeqsUpTo(S, n) : Len(q) >= 1}

\* pedal and throttle resolved or not, cells around the thresholds
InitWot ==
    /\ \E R \in SUBSET {"pedal", "throttle"} :
         /\ cols = ColsOf(R, <<>>)
         /\ rows \in NonEmptySeqs({Row(Null, p, t, Null) :
                                      p \in CellsFor("pedal", R, WotCells),
                                      t \in CellsFor("throttle", R, WotCells)},
                                  MaxWotRows)
    /\ caps = ProgramCaps
    /\ Detected

NextWot == AnalyzeStats

SpecWot == InitWot /\ [][NextWot]_vars

MaxAggRows == 3

RpmCells == {[text |-> ""], [num |-> -5], [num |-> 0], [num |-> 7], [num |-> 3000]}

\* 0 and 100 percent (tenths)
PedalCells == {[num |-> 0], [num |-> 1000]}

\* an rpm series with gaps, under a pedal that is fully pressed or released
InitAgg ==
    /\ \E R \in {{"pedal"}, {"rpm", "pedal"}} :
         /\ cols = ColsOf(R, <<>>)
         /\ rows \in NonEmptySeqs({Row(r, p, Null, Null) :
                                      r \in CellsFor("rpm", R, RpmCells), p \in PedalCells},
                                  MaxAggRows)
    /\ caps = ProgramCaps
    /\ Detected

NextAgg == AnalyzeStats

SpecAgg == InitAgg /\ [][NextAgg]_vars

MaxSampleRows == 5

MaxCap == 3

\* rows under a pedal that is fully pressed or released, sampled under small caps
InitSample ==
    /\ cols = ColsOf({"pedal"}, <<>>)
    /\ rows \in NonEmptySeqs({Row(Null, p, Null, Null) : p \in PedalCells}, MaxSampleRows)
    /\ caps \in [all : 1..MaxCap, wot : 1..MaxCap]
    /\ Detected

NextSample == AnalyzeStats

SpecSample == InitSample /\ [][NextSample]_vars

MaxBoostRows == 2

BoostNames ==
    {<<"B", "o", "o", "s", "t">>,
     <<"B", "o", "o", "s", "t", " ", "(", "p", "s", "i", ")">>,
     <<"M", "A", "P", " ", "k", "P", "a">>,
     <<"b", "o", "o", "s", "t", "_", "b", "a", "r">>}

BoostCells ==
    {[text |-> ""], [num |-> -1], [num |-> 0], [num |-> 1], [num |-> 14], [num |-> 18],
     [num |-> 30], [num |-> 101], [num |-> 401]}

\* a boost column under one of the names, or none, and a pedal column
InitBoost ==
    /\ \/ \E bn \in BoostNames :
            /\ cols = ColsOf({"pedal", "boost"}, bn)
            /\ rows \in NonEmptySeqs({Row(Null, p, Null, b) :
                                         p \in PedalCells, b \in BoostCells},
                                     MaxBoostRows)
       \/ /\ cols = ColsOf({"pedal"}, <<>>)
          /\ rows \in NonEmptySeqs({Row(Null, p, Null, Null) : p \in PedalCells},
                                   MaxBoostRows)
    /\ caps = ProgramCaps
    /\ Detected

NextBoost == AnalyzeStats

SpecBoost == InitBoost /\ [][NextBoost]_vars

----------------------------------------------------------------------------
\* Properties of the high-load mask (SpecWot)

Analyzed == pc = "analyzed"

\* the finite value of a row's cell for channel ch: a set with the value, or
\* empty when the channel is unresolved or the cell is no number
ValueOf(i, ch) ==
    IF cols[ch] = Null \/ rows[i][ch] = Null THEN {}
    ELSE IF "num" \in DOMAIN rows[i][ch] THEN {rows[i][ch].num}
    ELSE {}

\* the stated test in tenths: (v <= 1.2 and v >= 0.9) or (v > 1.2 and v >= 90)
PassesStated(i, ch) ==
    \E v \in ValueOf(i, ch) : (v <= 12 /\ v >= 9) \/ (v > 12 /\ v >= 900)

\* C7: a row's high-load flag is the OR of the pedal test and the throttle
\* test; a row with no finite pedal and no finite throttle value is not flagged.
C7_MaskIsPedalOrThrottle ==
    Analyzed =>
        /\ Len(wotMask) = Len(rows)
        /\ \A i \in 1..Len(rows) :
             /\ wotMask[i] <=> (PassesStated(i, "pedal") \/ PassesStated(i, "throttle"))
             /\ (ValueOf(i, "pedal") = {} /\ ValueOf(i, "throttle") = {}) => ~wotMask[i]

\* the pedal is unresolved; one row is flagged by its throttle value 0.9 and
\* another with throttle value 1.3 is not
C7_Witness ==
    /\ Analyzed
    /\ cols["pedal"] = Null
    /\ \E i, j \in 1..Len(rows) :
         /\ wotMask[i] /\ ValueOf(i, "throttle") = {9}
         /\ ~wotMask[j] /\ ValueOf(j, "throttle") = {13}

----------------------------------------------------------------------------
\* Properties of the aggregator (SpecAgg)

\* the stated summary of the entries of arr at the indices in I
StatedSummary(arr, I) ==
    LET F == {i \in I : arr[i] # Null}
        lo == CHOOSE i \in F : \A k \in F : arr[i][1] <= arr[k][1]
        hi == CHOOSE i \in F : \A k \in F : arr[k][1] <= arr[i][1]
    IN  IF F = {} THEN Null
        ELSE [min |-> arr[lo][1], max |-> arr[hi][1], count |-> Cardinality(F)]

WotIndices == {i \in 1..Len(rows) : wotMask[i]}

\* C8: the summary of a series, whole or restricted to the high-load rows, is
\* null exactly when it has no finite entry; otherwise count is the number of
\* finite entries and min and max are the least and the greatest of them.
C8_SummaryOfFiniteEntries ==
    Analyzed =>
        LET arr == arrs["rpm"]
            full == stats.full.rpm
            wot == stats.wot.rpm
        IN  /\ full = StatedSummary(arr, DOMAIN arr)
            /\ wot = StatedSummary(arr, WotIndices \cap DOMAIN arr)
            /\ \A st \in {full, wot} : st # Null => st.min <= st.max /\ st.count >= 1

\* a series with a gap and two different finite entries, none of them in a
\* high-load row while a high-load row exists
C8_Witness ==
    /\ Analyzed
    /\ stats.full.rpm # Null
    /\ stats.full.rpm.count = 2
    /\ stats.full.rpm.min < stats.full.rpm.max
    /\ Len(arrs["rpm"]) = 3
    /\ WotIndices # {}
    /\ stats.wot.rpm = Null

----------------------------------------------------------------------------
\* Properties of the sampling (SpecSample)

\* the stated sample of source under cap
StatedSample(source, cap) ==
    LET n == Len(source)
        s == CHOOSE k \in 1..n : k * cap >= n /\ (k - 1) * cap < n
        picked == {i \in 0..(n - 1) : i % s = 0}
    IN  IF n <= cap THEN source
        ELSE [k \in 1..Cardinality(picked) |-> source[(k - 1) * s + 1]]

\* the sample keeps order, repeats no row, stays within the cap and carries
\* each source row's own flag
WellFormedSample(out, cap) ==
    /\ Len(out) <= cap
    /\ \A k \in 1..(Len(out) - 1) : out[k].src < out[k + 1].src
    /\ \A k \in 1..Len(out) :
         /\ out[k].src \in 0..(Len(rows) - 1)
         /\ out[k].cells = rows[out[k].src + 1]
         /\ out[k].wot = (IF wotMask[out[k].src + 1] THEN 1 ELSE 0)

\* C10: sampleRows returns every row when there are at most cap rows, else the
\* rows at indices 0, s, 2s, ... with s = ceil(rowCount / cap); the result is
\* in source order without duplicates, has at most cap rows, and each sampled
\* row carries the flag of its source row.
C10_SampleIsStrided ==
    Analyzed =>
        LET all == CompactRows(rows, wotMask)
            hot == SelectSeq(all, LAMBDA r : r.wot = 1)
        IN  /\ sampleAll = StatedSample(all, caps.all)
            /\ sampleWot = StatedSample(hot, caps.wot)
            /\ WellFormedSample(sampleAll, caps.all)
            /\ WellFormedSample(sampleWot, caps.wot)
            /\ \A k \in 1..Len(sampleWot) : sampleWot[k].wot = 1

\* five rows under a cap of three are sampled at indices 0, 2, 4, and the
\* high-load rows are sampled with a stride as well
C10_Witness ==
    /\ Analyzed
    /\ Len(rows) = 5
    /\ caps.all = 3
    /\ Len(sampleAll) = 3
    /\ sampleAll[2].src = 2
    /\ Len(sampleWot) >= 2
    /\ Len(sampleWot) < Cardinality(WotIndices)

----------------------------------------------------------------------------
\* Properties of the pressure interpretation (SpecBoost)

BoostResolved == Analyzed /\ cols["boost"] # Null

UnitWord(u) ==
    CASE u = "kPa" -> <<"k", "p", "a">>
      [] u = "bar" -> <<"b", "a", "r">>
      [] u = "psi" -> <<"p", "s", "i">>

\* the units a column name names: those whose word its normalized name contains
NamedUnits(name) == {u \in {"kPa", "bar", "psi"} : Includes(normKey(name), UnitWord(u))}

\* the unit the value ranges of the raw series give
RangeUnit ==
    LET F == {i \in DOMAIN arrs["boost"] : arrs["boost"][i] # Null}
        V == {arrs["boost"][i][1] : i \in F}
        max == CHOOSE x \in V : \A y \in V : y <= x
        min == CHOOSE x \in V : \A y \in V : x <= y
    IN  IF F = {} THEN NoUnit
        ELSE IF max <= 5 /\ min >= 0 THEN "bar"
        ELSE IF max > 50 /\ max <= 400 THEN "kPa"
        ELSE IF max > 5 /\ max <= 120 THEN "psi"
        ELSE NoUnit

\* C1: when the name of the resolved boost column contains "kpa", "bar" or
\* "psi" the reported unit is the named one whatever the values are; the value
\* ranges decide only when the name contains none of the three.
C1_NameDecidesUnit ==
    BoostResolved =>
        LET named == NamedUnits(cols["boost"].name)
        IN  IF named = {} THEN boostMeta.unit = RangeUnit
            ELSE boostMeta.unit \in named

\* C2: with a resolved boost column of unknown unit no psi value is produced
\* and both boost gauge statistics are null.
C2_UnknownUnitGivesNull ==
    (BoostResolved /\ boostMeta.unit = NoUnit) =>
        /\ boostPsiArr = <<>>
        /\ boostPsiGaugeArr = <<>>
        /\ stats.full.boostPsiGauge = Null
        /\ stats.wot.boostPsiGauge = Null

\* the unit is unknown although the boost series has a finite value in a
\* high-load row
C2_Witness ==
    /\ BoostResolved
    /\ boostMeta.unit = NoUnit
    /\ \E i \in WotIndices : arrs["boost"][i] # Null

\* the stated conversion of a raw value to units of 10^-7 psi
StatedPsi(v, unit) ==
    CASE unit = "psi" -> v * 10000000
      [] unit = "kPa" -> v * 1450377
      [] unit = "bar" -> v * 145037700

\* rows with a converted psi value
PsiIndices ==
    IF boostMeta.unit = NoUnit THEN {}
    ELSE {i \in DOMAIN arrs["boost"] : arrs["boost"][i] # Null}

\* the stated decision: the least converted psi value lies strictly between 10 and 18
StatedAbsolute ==
    /\ PsiIndices # {}
    /\ \E i \in PsiIndices :
         /\ \A k \in PsiIndices : StatedPsi(arrs["boost"][i][1], boostMeta.unit)
                                    <= StatedPsi(arrs["boost"][k][1], boostMeta.unit)
         /\ StatedPsi(arrs["boost"][i][1], boostMeta.unit) > 100000000
         /\ StatedPsi(arrs["boost"][i][1], boostMeta.unit) < 180000000

\* the stated gauge value of row i: psi - 14.7 under the one decision, else psi
StatedGauge(i) ==
    IF StatedAbsolute
    THEN <<StatedPsi(arrs["boost"][i][1], boostMeta.unit) - 147000000>>
    ELSE <<StatedPsi(arrs["boost"][i][1], boostMeta.unit)>>

\* the gauge series, aligned with the rows
StatedGaugeSeries ==
    [i \in 1..Len(rows) |-> IF i \in PsiIndices THEN StatedGauge(i) ELSE Null]

\* C3: the absolute-vs-gauge decision is true exactly when the minimum of the
\* whole converted psi series lies strictly between 10 and 18; both boost
\* statistics are summaries of the same gauge values, psi - 14.7 for every row
\* when the decision is true and psi when it is false.
C3_OneDecisionForAllRows ==
    BoostResolved =>
        /\ boostMeta.absoluteLikely <=> StatedAbsolute
        /\ stats.full.boostPsiGauge = StatedSummary(StatedGaugeSeries, 1..Len(rows))
        /\ stats.wot.boostPsiGauge = StatedSummary(StatedGaugeSeries, WotIndices)

\* the series is judged absolute from its minimum, and a high-load row with a
\* greater value is shifted by 14.7 as well
C3_Witness ==
    /\ BoostResolved
    /\ boostMeta.absoluteLikely
    /\ stats.full.boostPsiGauge.count = 2
    /\ stats.full.boostPsiGauge.min < stats.full.boostPsiGauge.max
    /\ stats.wot.boostPsiGauge # Null
    /\ stats.wot.boostPsiGauge.count = 1
    /\ stats.wot.boostPsiGauge.min = stats.full.boostPsiGauge.max

----------------------------------------------------------------------------
\* Shape of the numeric series (SpecBoost)

\* the stated entry of channel ch at row i: the finite value of the cell, null
\* when the cell is not coercible or the channel is absent
StatedEntry(i, ch) ==
    IF ValueOf(i, ch) = {} THEN Null ELSE <<CHOOSE v \in ValueOf(i, ch) : TRUE>>

\* one entry per row, null where there is no value
StatedSeries(ch) == [i \in 1..Len(rows) |-> StatedEntry(i, ch)]

\* the converted psi series, aligned with the rows
StatedPsiSeries ==
    [i \in 1..Len(rows) |->
        IF i \in PsiIndices THEN <<StatedPsi(arrs["boost"][i][1], boostMeta.unit)>>
        ELSE Null]

\* the entries of a series that are not null, in order
Present(series) == SelectSeq(series, LAMBDA v : v # Null)

\* C11: every numeric series built for a channel (the raw series of rpm, pedal,
\* throttle, boost, iat, lambda and ignition, the converted psi series and the
\* gauge psi series) has one entry per parsed row, aligned with the rows, with
\* null where the cell is not coercible or the channel is absent, also for an
\* unresolved channel and after the unit conversion.
C11_SeriesAlignedWithRows ==
    Analyzed =>
        /\ \A ch \in NumericChannels : arrs[ch] = StatedSeries(ch)
        /\ boostPsiArr = (IF cols["boost"] = Null THEN StatedSeries("boost")
                          ELSE StatedPsiSeries)
        /\ boostPsiGaugeArr = (IF cols["boost"] = Null THEN StatedSeries("boost")
                               ELSE StatedGaugeSeries)

\* C11 as the handler builds the series: the raw series of a resolved channel
\* has one entry per row, aligned, with null where the cell is not coercible;
\* the series of an unresolved channel is empty; the converted psi series and
\* the gauge psi series hold only the convertible entries, in row order, and
\* are empty when the boost channel is unresolved.
C11_SeriesAlignedWhenResolved ==
    Analyzed =>
        /\ \A ch \in NumericChannels :
             arrs[ch] = (IF cols[ch] # Null THEN StatedSeries(ch) ELSE <<>>)
        /\ boostPsiArr = (IF cols["boost"] = Null THEN <<>> ELSE Present(StatedPsiSeries))
        /\ boostPsiGaugeArr = (IF cols["boost"] = Null THEN <<>>
                               ELSE Present(StatedGaugeSeries))
        /\ Len(boostPsiArr) = Len(boostPsiGaugeArr)
        /\ Len(boostPsiArr) <= Len(rows)

\* a boost column with a gap before a convertible value: the raw series keeps
\* the gap, the converted series are shorter than the rows, and the series of
\* the unresolved rpm channel is empty
C11_Witness ==
    /\ BoostResolved
    /\ Len(rows) = 2
    /\ arrs["boost"][1] = Null
    /\ arrs["boost"][2] # Null
    /\ Len(boostPsiArr) = 1
    /\ Len(boostPsiGaugeArr) = 1
    /\ arrs["rpm"] = <<>>

----------------------------------------------------------------------------
\* Uploaded files for the delimiter of the header line: a header line and a
\* data line of three tokens each, with blanks or tabs before and after them.

MaxPad == 2

PadChars == {" ", Tab}

\* runs of up to MaxPad blanks or tabs
Pads == {Rep(c, n) : c \in PadChars, n \in 0..MaxPad}

\* the files whose tokens are joined by d
PaddedFiles(d) ==
    {<<h1 \o TokenLine(3, 0, d) \o h2, d1 \o TokenLine(0, 3, d) \o d2>> :
        h1 \in Pads, h2 \in Pads, d1 \in Pads, d2 \in Pads}

DelimiterFiles == PaddedFiles(",") \cup PaddedFiles(";")

InitDelimiter ==
    /\ pc = "start"
    /\ lines \in DelimiterFiles
    /\ fields = Null
    /\ rows = Null
    /\ caps = Null
    /\ Fresh

NextDelimiter == ParseStep \/ DetectColumns

SpecDelimiter == InitDelimiter /\ [][NextDelimiter]_vars

\* the delimiter under which the scan judged the line at index i
ScannedDelimiter(ls, i) == detectDelimiter(TrimmedLine(ls, i))

\* the delimiter normalizeLogCsv detects for the line at index i
HandedDelimiter(ls, i) == detectDelimiter(ls[i + 1])

\* C12: the delimiter handed to the parser is the delimiter under which the
\* selected header line was judged header-like during the scan, also for
\* lines with leading or trailing blanks or tabs; a parse that kept the forced
\* delimiter reports that delimiter.
C12_ParserGetsScannedDelimiter ==
    Parsed =>
        /\ HandedDelimiter(lines, norm.headerIdx) = ScannedDelimiter(lines, norm.headerIdx)
        /\ norm.detectedDelimiter # "auto" =>
             norm.detectedDelimiter = ScannedDelimiter(lines, norm.headerIdx)

----------------------------------------------------------------------------
\* Distinctness of the resolved channels (SpecColumns)

\* C13: the channel resolution is injective on the resolved channels: no field
\* is selected for two different channels.
C13_ResolutionInjective ==
    pc = "columns" =>
        \A c1 \in Channels : \A c2 \in Channels \ {c1} :
            (cols[c1] # Null /\ cols[c2] # Null) => cols[c1].name # cols[c2].name

====
